---- MODULE Spec2Model ----
(***************************************************************************)
(* Butchery loyalty program: the shared utilities (AppUtils) and the       *)
(* database helpers (DatabaseHelpers) of src/app.js, over a model of the   *)
(* hosted identity provider and document store they call.                  *)
(*                                                                         *)
(* Text is a sequence of one-character strings where the code inspects     *)
(* characters (phone numbers, names) and a string otherwise.  A purchase   *)
(* amount is a JavaScript number of currency units; it is held here in     *)
(* hundredths of a unit, so that 99.99 is 9999 and amount / 100 is         *)
(* hundredths / 10000.                                                     *)
(***************************************************************************)
EXTENDS Integers, Sequences, FiniteSets, TLC

(* ------------------------------ bounds -------------------------------- *)

\* The amounts given to calculatePoints on its own run from
\* -MaxQuarterHundreds * 25 to MaxQuarterHundreds * 25 currency units.
MaxQuarterHundreds == 44

(* ------------------------- AppUtils: phones --------------------------- *)

Digits == {"0", "1", "2", "3", "4", "5", "6", "7", "8", "9"}

\* phone.replace(/[^\d+]/g, '')
formatPhoneNumber(phone) ==
    SelectSeq(phone, LAMBDA c : c \in Digits \cup {"+"})

\* `${formattedPhone}@butchery.local`
phoneToEmail(phone) ==
    formatPhoneNumber(phone) \o <<"@butchery.local">>

\* /^\+\d{10,15}$/.test(formatted)
isValidPhoneNumber(phone) ==
    LET formatted == formatPhoneNumber(phone)
    IN  /\ Len(formatted) >= 11
        /\ Len(formatted) <= 16
        /\ formatted[1] = "+"
        /\ \A i \in 2..Len(formatted) : formatted[i] \in Digits

(* ------------------------- AppUtils: points --------------------------- *)

\* A plausible slip: the multiplication applied before the floor.
calculatePointsUnfloored(amount) ==
    (amount * 5) \div 10000

\* Math.floor(amount / 100) * 5, amount in hundredths of a unit.  Math.floor
\* rounds towards minus infinity, as \div does.
calculatePoints(amount) ==
    (amount \div 10000) * 5

(* ---------------------- AppUtils: error messages ---------------------- *)

\* The object literal errorMessages: its own keys and their values.
errorMessages ==
    [code \in {"auth/user-not-found", "auth/wrong-password",
               "auth/email-already-in-use", "auth/weak-password",
               "auth/too-many-requests", "auth/network-request-failed",
               "permission-denied", "not-found", "already-exists",
               "resource-exhausted", "unauthenticated"} |->
        CASE code = "auth/user-not-found" ->
                 "Account not found. Please check your phone number."
          [] code = "auth/wrong-password" ->
                 "Incorrect password. Please try again."
          [] code = "auth/email-already-in-use" ->
                 "An account with this phone number already exists."
          [] code = "auth/weak-password" ->
                 "Password should be at least 6 characters."
          [] code = "auth/too-many-requests" ->
                 "Too many failed attempts. Please try again later."
          [] code = "auth/network-request-failed" ->
                 "Network error. Please check your connection."
          [] code = "permission-denied" ->
                 "Permission denied. Please check your credentials."
          [] code = "not-found" -> "Document not found."
          [] code = "already-exists" -> "Document already exists."
          [] code = "resource-exhausted" ->
                 "Database quota exceeded. Please try again later."
          [] code = "unauthenticated" ->
                 "Authentication required. Please log in again."]

\* Names every object literal inherits from Object.prototype: a lookup of one
\* of them finds the inherited member, which is truthy and no message.
ObjectPrototypeKeys == {"constructor", "toString"}

InheritedMember(key) == "[inherited Object.prototype." \o key \o "]"

\* errorMessages[code]: "" stands for undefined.
LookupErrorMessage(code) ==
    IF code \in DOMAIN errorMessages THEN errorMessages[code]
    ELSE IF code \in ObjectPrototypeKeys THEN InheritedMember(code)
    ELSE ""

GenericMessage == "An unexpected error occurred."

\* A plausible slip: the raw message is dropped from the fallback chain.
getErrorMessageNoDetail(error) ==
    LET code == IF error.code # "" THEN error.code ELSE error.message
    IN  IF LookupErrorMessage(code) # "" THEN LookupErrorMessage(code)
        ELSE GenericMessage

\* const code = error.code || error.message;
\* return errorMessages[code] || error.message || 'An unexpected error occurred.';
\* An absent or empty code or message is "".
getErrorMessage(error) ==
    LET code == IF error.code # "" THEN error.code ELSE error.message
    IN  IF LookupErrorMessage(code) # "" THEN LookupErrorMessage(code)
        ELSE IF error.message # "" THEN error.message
        ELSE GenericMessage

(* ------------------------------ inputs -------------------------------- *)

\* Phone numbers as typed.  PhoneA and PhoneASpaced differ only in
\* separators; PhoneShort has too few digits.
PhoneA == <<"+", "2", "5", "4", "7", "0", "0", "0", "0", "0", "1">>
PhoneASpaced ==
    <<"+", "2", "5", "4", " ", "7", "0", "0", "-", "0", "0", "0", "-", "1">>
PhoneB == <<"+", "2", "5", "4", "7", "0", "0", "0", "0", "0", "2">>
PhoneShort == <<"+", "2", "5", "4", "7">>
RawPhones == {PhoneA, PhoneASpaced, PhoneB, PhoneShort}

\* The phone numbers the ledger's calls are given.
LedgerPhones == {PhoneASpaced, PhoneB}

Passwords == {"12345", "secret1"}

Names == {<<" ", "A", "l", " ">>}

\* Purchase amounts in hundredths: -50.00 and 2050.00.
AwardAmounts == {-5000, 205000}

Tiers == {"small", "large", "medium"}

Procs == {"c1", "c2"}

\* At most MaxCalls calls are made in one run.
MaxCalls == 4

\* Errors the document store and the identity provider raise on their own.
StoreErrors ==
    {[code |-> "unavailable",
      message |-> "The service is currently unavailable."]}
AuthErrors ==
    {[code |-> "auth/network-request-failed",
      message |-> "A network error has occurred."]}

(* ------------------------------- state -------------------------------- *)

VARIABLES
    customers,    \* collection customers: document id -> document
    authUsers,    \* identity provider: email -> account
    purchases,    \* collection purchases, in creation order
    redemptions,  \* collection redemptions, in creation order
    session,      \* per client: the signed-in email, or NoSession
    pc,           \* per client: where its pending call is suspended
    local,        \* per client: the pending call's local variables
    result,       \* per client: what the finished call returned
    calls,        \* how many calls have been made
    calc,         \* calculatePoints on its own: argument and value
    mapped        \* getErrorMessage on its own: argument and value

vars == <<customers, authUsers, purchases, redemptions, session, pc,
          local, result, calls, calc, mapped>>
storeVars == <<customers, authUsers, purchases, redemptions, session>>
pureVars == <<calc, mapped>>
restVars == <<calls, calc, mapped>>

\* One more call is made, within the run's budget.
Called ==
    /\ calls < MaxCalls
    /\ calls' = calls + 1

NoSession == <<>>
NoRead == [exists |-> FALSE, points |-> 0]
NoStart == [points |-> 0, purchases |-> 0, redemptions |-> 0]

NoLocal ==
    [op |-> "idle", phone |-> <<>>, password |-> "", name |-> <<>>,
     amount |-> 0, tier |-> "", seen |-> NoRead, start |-> NoStart,
     pending |-> {}, customersSize |-> 0,
     purchasesSnapshot |-> <<>>, redemptionsSnapshot |-> <<>>]

NoStats ==
    [totalCustomers |-> 0, totalPurchases |-> 0, totalRedemptions |-> 0,
     totalRevenue |-> 0, totalPointsEarned |-> 0, totalPointsRedeemed |-> 0,
     activePoints |-> 0]

\* What a call returns.  balances is not returned: it records the sum of the
\* customers' balances at the moment getStatistics returned.
Failure(msg) ==
    [success |-> FALSE, error |-> msg, stats |-> NoStats, balances |-> 0]
Success ==
    [success |-> TRUE, error |-> "", stats |-> NoStats, balances |-> 0]
NoResult == Failure("")

Exists(phone) == phone \in DOMAIN customers

\* firebase.firestore.FieldValue.serverTimestamp(): the server's time at the
\* write.  Time is counted in the documents the store holds, so it advances
\* with every document created.
serverTimestamp ==
    Cardinality(DOMAIN customers) + Len(purchases) + Len(redemptions)

\* name.trim()
trim(name) ==
    LET keep == {i \in 1..Len(name) : name[i] # " "}
    IN  IF keep = {} THEN <<>>
        ELSE LET first == CHOOSE i \in keep : \A j \in keep : i <= j
                 last == CHOOSE i \in keep : \A j \in keep : i >= j
             IN  SubSeq(name, first, last)

Finish(p, r) ==
    /\ pc' = [pc EXCEPT ![p] = "done"]
    /\ result' = [result EXCEPT ![p] = r]

Goto(p, label) ==
    /\ pc' = [pc EXCEPT ![p] = label]
    /\ UNCHANGED result

\* Of a finished call only what identifies it is kept.
Kept(l) ==
    [NoLocal EXCEPT !.op = l.op, !.phone = l.phone, !.tier = l.tier,
                    !.start = l.start]

\* The call returns r / is suspended at label, its locals as they are.
End(p, r) ==
    /\ Finish(p, r)
    /\ local' = [local EXCEPT ![p] = Kept(local[p])]

Step(p, label) ==
    /\ Goto(p, label)
    /\ UNCHANGED local

Init ==
    /\ customers = <<>>
    /\ authUsers = <<>>
    /\ purchases = <<>>
    /\ redemptions = <<>>
    /\ session = [p \in Procs |-> NoSession]
    /\ pc = [p \in Procs |-> "idle"]
    /\ local = [p \in Procs |-> NoLocal]
    /\ result = [p \in Procs |-> NoResult]
    /\ calls = 0
    /\ calc = [applied |-> FALSE, amount |-> 0, threw |-> "", points |-> 0]
    /\ mapped = [applied |-> FALSE, error |-> [code |-> "", message |-> ""],
                 text |-> ""]

\* The caller takes the returned value; the client is free for its next call.
Return(p) ==
    /\ pc[p] = "done"
    /\ pc' = [pc EXCEPT ![p] = "idle"]
    /\ local' = [local EXCEPT ![p] = NoLocal]
    /\ result' = [result EXCEPT ![p] = NoResult]
    /\ UNCHANGED <<storeVars, restVars>>

(* ---------------- DatabaseHelpers.createCustomer ---------------------- *)

\* A plausible slip: the new document starts with a welcome bonus.
NewCustomerDocBonus(name, uid, time) ==
    [points |-> 5, createdAt |-> time, name |-> trim(name), uid |-> uid,
     lastLogin |-> time]

\* The document createCustomer sets.
NewCustomerDoc(name, uid, time) ==
    [points |-> 0, createdAt |-> time, name |-> trim(name), uid |-> uid,
     lastLogin |-> time]

\* The identity provider's uid of an account: opaque, one per email.
UidOf(email) == <<"uid">> \o email

\* The call up to its first await: the two validations.
CreateCustomerCall(p, phoneNumber, password, name) ==
    /\ pc[p] = "idle"
    /\ Called
    /\ UNCHANGED <<storeVars, pureVars>>
    /\ IF ~isValidPhoneNumber(phoneNumber)
       THEN /\ Finish(p, Failure("Invalid phone number format"))
            /\ local' = [local EXCEPT ![p] =
                   [NoLocal EXCEPT !.op = "createCustomer"]]
       ELSE IF Len(password) < 6
       THEN /\ Finish(p, Failure("Password must be at least 6 characters"))
            /\ local' = [local EXCEPT ![p] =
                   [NoLocal EXCEPT !.op = "createCustomer"]]
       ELSE /\ Goto(p, "cc_get")
            /\ local' = [local EXCEPT ![p] =
                   [NoLocal EXCEPT !.op = "createCustomer",
                                   !.phone = formatPhoneNumber(phoneNumber),
                                   !.password = password,
                                   !.name = name]]

\* await db.collection('customers').doc(formattedPhone).get()
CreateCustomerGet(p) ==
    /\ pc[p] = "cc_get"
    /\ UNCHANGED <<storeVars, restVars>>
    /\ \/ IF Exists(local[p].phone)
          THEN End(p, Failure(
                   "Customer with this phone number already exists"))
          ELSE Step(p, "cc_auth")
       \/ \E e \in StoreErrors : End(p, Failure(getErrorMessage(e)))

\* await auth.createUserWithEmailAndPassword(email, password): the provider
\* keeps one account per email and signs the new account in.
CreateCustomerAuth(p) ==
    LET email == phoneToEmail(local[p].phone)
    IN  /\ pc[p] = "cc_auth"
        /\ UNCHANGED <<customers, purchases, redemptions, restVars>>
        /\ \/ IF email \in DOMAIN authUsers
              THEN /\ End(p, Failure(getErrorMessage(
                          [code |-> "auth/email-already-in-use",
                           message |-> "The email address is already in use."])))
                   /\ UNCHANGED <<authUsers, session>>
              ELSE /\ authUsers' = (email :> [password |-> local[p].password,
                                              uid |-> UidOf(email)])
                                   @@ authUsers
                   /\ session' = [session EXCEPT ![p] = email]
                   /\ Step(p, "cc_set")
           \/ /\ \E e \in AuthErrors : End(p, Failure(getErrorMessage(e)))
              /\ UNCHANGED <<authUsers, session>>

\* await db.collection('customers').doc(formattedPhone).set({...})
CreateCustomerSet(p) ==
    LET email == phoneToEmail(local[p].phone)
    IN  /\ pc[p] = "cc_set"
        /\ UNCHANGED <<authUsers, purchases, redemptions, session,
                       restVars>>
        /\ \/ /\ customers' = (local[p].phone :>
                     NewCustomerDoc(local[p].name, UidOf(email), serverTimestamp))
                     @@ customers
              /\ End(p, Success)
           \/ /\ \E e \in StoreErrors : End(p, Failure(getErrorMessage(e)))
              /\ UNCHANGED customers

(* ----------------- DatabaseHelpers.loginCustomer ---------------------- *)

\* A plausible slip: set() in place of update() replaces the document.
LoginDocSet(doc, time) ==
    [points |-> 0, createdAt |-> time, name |-> <<>>, uid |-> doc.uid,
     lastLogin |-> time]

\* update({lastLogin: serverTimestamp()}) on the stored document.
LoginDocUpdate(doc, time) ==
    [doc EXCEPT !.lastLogin = time]

\* The call up to its first await: the validation.
LoginCall(p, phoneNumber, password) ==
    /\ pc[p] = "idle"
    /\ Called
    /\ UNCHANGED <<storeVars, pureVars>>
    /\ IF ~isValidPhoneNumber(phoneNumber)
       THEN /\ Finish(p, Failure("Invalid phone number format"))
            /\ local' = [local EXCEPT ![p] =
                   [NoLocal EXCEPT !.op = "loginCustomer"]]
       ELSE /\ Goto(p, "lg_auth")
            /\ local' = [local EXCEPT ![p] =
                   [NoLocal EXCEPT !.op = "loginCustomer",
                                   !.phone = formatPhoneNumber(phoneNumber),
                                   !.password = password]]

\* await auth.signInWithEmailAndPassword(email, password)
LoginAuth(p) ==
    LET email == phoneToEmail(local[p].phone)
    IN  /\ pc[p] = "lg_auth"
        /\ UNCHANGED <<customers, authUsers, purchases, redemptions,
                       restVars>>
        /\ \/ IF email \notin DOMAIN authUsers
              THEN /\ End(p, Failure(getErrorMessage(
                          [code |-> "auth/user-not-found",
                           message |-> "There is no user record."])))
                   /\ UNCHANGED session
              ELSE IF authUsers[email].password # local[p].password
              THEN /\ End(p, Failure(getErrorMessage(
                          [code |-> "auth/wrong-password",
                           message |-> "The password is invalid."])))
                   /\ UNCHANGED session
              ELSE /\ session' = [session EXCEPT ![p] = email]
                   /\ Step(p, "lg_get")
           \/ /\ \E e \in AuthErrors : End(p, Failure(getErrorMessage(e)))
              /\ UNCHANGED session

\* await db.collection('customers').doc(formattedPhone).get()
LoginGet(p) ==
    /\ pc[p] = "lg_get"
    /\ UNCHANGED <<storeVars, restVars>>
    /\ \/ IF Exists(local[p].phone)
          THEN Step(p, "lg_update")
          ELSE Step(p, "lg_signout")
       \/ \E e \in StoreErrors : End(p, Failure(getErrorMessage(e)))

\* await auth.signOut(); return { success: false, ... }
LoginSignOut(p) ==
    /\ pc[p] = "lg_signout"
    /\ UNCHANGED <<customers, authUsers, purchases, redemptions,
                   restVars>>
    /\ \/ /\ session' = [session EXCEPT ![p] = NoSession]
          /\ End(p, Failure("Customer account not found"))
       \/ /\ \E e \in AuthErrors : End(p, Failure(getErrorMessage(e)))
          /\ UNCHANGED session

\* await db.collection('customers').doc(formattedPhone).update({lastLogin})
\* update() of a document that does not exist raises not-found.
LoginUpdate(p) ==
    /\ pc[p] = "lg_update"
    /\ UNCHANGED <<authUsers, purchases, redemptions, session,
                   restVars>>
    /\ \/ IF Exists(local[p].phone)
          THEN /\ customers' = [customers EXCEPT ![local[p].phone] =
                      LoginDocUpdate(customers[local[p].phone], serverTimestamp)]
               /\ End(p, Success)
          ELSE /\ End(p, Failure(getErrorMessage(
                      [code |-> "not-found",
                       message |-> "No document to update."])))
               /\ UNCHANGED customers
       \/ /\ \E e \in StoreErrors : End(p, Failure(getErrorMessage(e)))
          /\ UNCHANGED customers

(* --------------------------- the ledger ------------------------------- *)
(* award_points and redeem_points: each one transaction on the document    *)
(* store.  The store runs a transaction optimistically: it reads the       *)
(* customer's balance, and at commit it applies the writes only if the     *)
(* balance is still the one read; otherwise it runs the transaction again. *)

\* A plausible slip: the two tiers' costs exchanged.
TierCostExchanged(tier) ==
    IF tier = "small" THEN 180 ELSE 100

\* The reward tiers: 100 points = 0.5kg, 180 points = 0.75kg.
TierCost(tier) ==
    IF tier = "small" THEN 100 ELSE 180

ValidTiers == {"small", "large"}

\* What a transaction reads of a customer.
ReadBalance(phone) ==
    IF Exists(phone)
    THEN [exists |-> TRUE, points |-> customers[phone].points]
    ELSE NoRead

\* A store without conflict detection commits against a stale read.
TxnConflictIgnored(seen, current) == FALSE

\* At commit: has the customer's balance changed since it was read?
TxnConflict(seen, current) == seen # current

RECURSIVE SumSeq(_)
\* The sum of a sequence of numbers.
SumSeq(numbers) ==
    IF numbers = <<>> THEN 0 ELSE Head(numbers) + SumSeq(Tail(numbers))

\* The records of a collection that carry the phone.
RecordsOf(records, phone) ==
    SelectSeq(records, LAMBDA r : r.customerPhone = phone)

\* The sum of pointsEarned over a sequence of Purchase records.
TotalPointsEarned(records) ==
    SumSeq([i \in 1..Len(records) |-> records[i].pointsEarned])

\* The sum of pointsSpent over a sequence of Redemption records.
TotalPointsSpent(records) ==
    SumSeq([i \in 1..Len(records) |-> records[i].pointsSpent])

NumPurchases(phone) == Len(RecordsOf(purchases, phone))
NumRedemptions(phone) == Len(RecordsOf(redemptions, phone))

\* The ledger position of a customer when a call is launched.
StartOf(phone) ==
    [points |-> ReadBalance(phone).points,
     purchases |-> NumPurchases(phone),
     redemptions |-> NumRedemptions(phone)]

\* award_points(customerPhone, amount) is called.
AwardCall(p, customerPhone, amount) ==
    /\ pc[p] = "idle"
    /\ Called
    /\ local' = [local EXCEPT ![p] =
           [NoLocal EXCEPT !.op = "award",
                           !.phone = formatPhoneNumber(customerPhone),
                           !.amount = amount]]
    /\ Goto(p, "aw_read")
    /\ UNCHANGED <<storeVars, pureVars>>

\* The transaction reads the customer.
AwardRead(p) ==
    /\ pc[p] = "aw_read"
    /\ local' = [local EXCEPT ![p].seen = ReadBalance(local[p].phone)]
    /\ Goto(p, "aw_commit")
    /\ UNCHANGED <<storeVars, restVars>>

\* The transaction commits: both writes, or, on a missing customer, none.
AwardCommit(p) ==
    LET phone == local[p].phone
        pointsEarned == calculatePoints(local[p].amount)
    IN  /\ pc[p] = "aw_commit"
        /\ UNCHANGED <<authUsers, redemptions, session, restVars>>
        /\ IF TxnConflict(local[p].seen, ReadBalance(phone))
           THEN /\ Step(p, "aw_read")
                /\ UNCHANGED <<customers, purchases>>
           ELSE IF ~local[p].seen.exists
           THEN /\ End(p, Failure("CustomerNotFound"))
                /\ UNCHANGED <<customers, purchases>>
           ELSE /\ customers' = [customers EXCEPT ![phone].points =
                       local[p].seen.points + pointsEarned]
                /\ purchases' = Append(purchases,
                       [customerPhone |-> phone, amount |-> local[p].amount,
                        pointsEarned |-> pointsEarned])
                /\ End(p, Success)

\* redeem_points(customerPhone, tier) is called.
RedeemCall(p, customerPhone, tier) ==
    /\ pc[p] = "idle"
    /\ Called
    /\ local' = [local EXCEPT ![p] =
           [NoLocal EXCEPT !.op = "redeem",
                           !.phone = formatPhoneNumber(customerPhone),
                           !.tier = tier,
                           !.start = StartOf(formatPhoneNumber(customerPhone))]]
    /\ UNCHANGED <<storeVars, pureVars>>
    /\ IF tier \notin ValidTiers
       THEN Finish(p, Failure("InvalidTier"))
       ELSE Goto(p, "rd_read")

\* The transaction reads the customer.
RedeemRead(p) ==
    /\ pc[p] = "rd_read"
    /\ local' = [local EXCEPT ![p].seen = ReadBalance(local[p].phone)]
    /\ Goto(p, "rd_commit")
    /\ UNCHANGED <<storeVars, restVars>>

\* The transaction commits: the check and both writes, or none.
RedeemCommit(p) ==
    LET phone == local[p].phone
        pointsSpent == TierCost(local[p].tier)
    IN  /\ pc[p] = "rd_commit"
        /\ UNCHANGED <<authUsers, purchases, session, restVars>>
        /\ IF TxnConflict(local[p].seen, ReadBalance(phone))
           THEN /\ Step(p, "rd_read")
                /\ UNCHANGED <<customers, redemptions>>
           ELSE IF ~local[p].seen.exists
           THEN /\ End(p, Failure("CustomerNotFound"))
                /\ UNCHANGED <<customers, redemptions>>
           ELSE IF local[p].seen.points < pointsSpent
           THEN /\ End(p, Failure("InsufficientPoints"))
                /\ UNCHANGED <<customers, redemptions>>
           ELSE /\ customers' = [customers EXCEPT ![phone].points =
                       local[p].seen.points - pointsSpent]
                /\ redemptions' = Append(redemptions,
                       [customerPhone |-> phone, tier |-> local[p].tier,
                        pointsSpent |-> pointsSpent])
                /\ End(p, Success)

(* ----------------- DatabaseHelpers.getStatistics ---------------------- *)

\* purchasesSnapshot.forEach: totalRevenue += data.amount || 0
TotalRevenue(snapshot) ==
    SumSeq([i \in 1..Len(snapshot) |-> snapshot[i].amount])

\* activePoints: totalPointsEarned - totalPointsRedeemed
ActivePoints(totalPointsEarned, totalPointsRedeemed) ==
    totalPointsEarned - totalPointsRedeemed

\* The stats object built from the three snapshots.
StatsOf(customersSize, purchasesSnapshot, redemptionsSnapshot) ==
    LET totalRevenue == TotalRevenue(purchasesSnapshot)
        totalPointsEarned == TotalPointsEarned(purchasesSnapshot)
        totalPointsRedeemed == TotalPointsSpent(redemptionsSnapshot)
    IN  [totalCustomers |-> customersSize,
         totalPurchases |-> Len(purchasesSnapshot),
         totalRedemptions |-> Len(redemptionsSnapshot),
         totalRevenue |-> totalRevenue,
         totalPointsEarned |-> totalPointsEarned,
         totalPointsRedeemed |-> totalPointsRedeemed,
         activePoints |-> ActivePoints(totalPointsEarned, totalPointsRedeemed)]

RECURSIVE SumBalancesOver(_)
SumBalancesOver(phones) ==
    IF phones = {} THEN 0
    ELSE LET ph == CHOOSE x \in phones : TRUE
         IN  customers[ph].points + SumBalancesOver(phones \ {ph})

\* The sum of all customers' current balances.
SumBalances == SumBalancesOver(DOMAIN customers)

Collections == {"customers", "purchases", "redemptions"}

\* Promise.all([...get(), ...get(), ...get()]): three reads are issued.
StatisticsCall(p) ==
    /\ pc[p] = "idle"
    /\ Called
    /\ local' = [local EXCEPT ![p] =
           [NoLocal EXCEPT !.op = "getStatistics", !.pending = Collections]]
    /\ Goto(p, "st_read")
    /\ UNCHANGED <<storeVars, pureVars>>

\* The store serves one of the pending reads, or fails it.
StatisticsRead(p, collection) ==
    /\ pc[p] = "st_read"
    /\ collection \in local[p].pending
    /\ UNCHANGED <<storeVars, restVars>>
    /\ \/ /\ local' = [local EXCEPT
                 ![p].pending = @ \ {collection},
                 ![p].customersSize =
                     IF collection = "customers"
                     THEN Cardinality(DOMAIN customers) ELSE @,
                 ![p].purchasesSnapshot =
                     IF collection = "purchases" THEN purchases ELSE @,
                 ![p].redemptionsSnapshot =
                     IF collection = "redemptions" THEN redemptions ELSE @]
          /\ Goto(p, "st_read")
       \/ /\ \E e \in StoreErrors : Finish(p, Failure(getErrorMessage(e)))
          /\ local' = [local EXCEPT ![p] =
                 [NoLocal EXCEPT !.op = "getStatistics"]]

\* All three reads have resolved: the folds, and the return.
StatisticsReturn(p) ==
    /\ pc[p] = "st_read"
    /\ local[p].pending = {}
    /\ End(p, [success |-> TRUE, error |-> "",
                  stats |-> StatsOf(local[p].customersSize,
                                    local[p].purchasesSnapshot,
                                    local[p].redemptionsSnapshot),
                  balances |-> SumBalances])
    /\ UNCHANGED <<storeVars, restVars>>

(* ------------------------- specifications ----------------------------- *)

Next ==
    \/ \E p \in Procs : Return(p)
    \/ \E p \in Procs, phoneNumber \in RawPhones, password \in Passwords,
          name \in Names : CreateCustomerCall(p, phoneNumber, password, name)
    \/ \E p \in Procs : CreateCustomerGet(p)
    \/ \E p \in Procs : CreateCustomerAuth(p)
    \/ \E p \in Procs : CreateCustomerSet(p)
    \/ \E p \in Procs, phoneNumber \in RawPhones, password \in Passwords :
          LoginCall(p, phoneNumber, password)
    \/ \E p \in Procs : LoginAuth(p)
    \/ \E p \in Procs : LoginGet(p)
    \/ \E p \in Procs : LoginSignOut(p)
    \/ \E p \in Procs : LoginUpdate(p)
    \/ \E p \in Procs, customerPhone \in LedgerPhones, amount \in AwardAmounts :
          AwardCall(p, customerPhone, amount)
    \/ \E p \in Procs : AwardRead(p)
    \/ \E p \in Procs : AwardCommit(p)
    \/ \E p \in Procs, customerPhone \in LedgerPhones, tier \in Tiers :
          RedeemCall(p, customerPhone, tier)
    \/ \E p \in Procs : RedeemRead(p)
    \/ \E p \in Procs : RedeemCommit(p)
    \/ \E p \in Procs : StatisticsCall(p)
    \/ \E p \in Procs, collection \in Collections :
          StatisticsRead(p, collection)
    \/ \E p \in Procs : StatisticsReturn(p)

Spec == Init /\ [][Next]_vars

(* -------------------- the pure functions on their own ------------------ *)

\* -MaxQuarterHundreds * 25 .. MaxQuarterHundreds * 25 units in steps of 25,
\* and the amounts around the first threshold.
CalcAmounts ==
    {2500 * k : k \in -MaxQuarterHundreds..MaxQuarterHundreds}
        \cup {-1, 1, 9900, 9999, 10001}

ErrorCodes ==
    DOMAIN errorMessages \cup ObjectPrototypeKeys \cup {"", "unavailable"}
ErrorDetails ==
    {"", "The service is currently unavailable.", "not-found"}

\* calculatePoints(amount) is evaluated.  Its body has no throw: it returns
\* for every argument, and threw stays empty.
CalcApply(amount) ==
    /\ calc' = [applied |-> TRUE, amount |-> amount, threw |-> "",
                points |-> calculatePoints(amount)]
    /\ UNCHANGED <<storeVars, pc, local, result, calls, mapped>>

\* getErrorMessage(error) is evaluated.
MapApply(error) ==
    /\ mapped' = [applied |-> TRUE, error |-> error,
                  text |-> getErrorMessage(error)]
    /\ UNCHANGED <<storeVars, pc, local, result, calls, calc>>

NextPure ==
    \/ \E amount \in CalcAmounts : CalcApply(amount)
    \/ \E code \in ErrorCodes, message \in ErrorDetails :
          MapApply([code |-> code, message |-> message])

SpecPure == Init /\ [][NextPure]_vars

(* ============================== claims ================================= *)

\* The code an error is looked up under: error.code || error.message.
EffectiveCode(error) ==
    IF error.code # "" THEN error.code ELSE error.message

\* C1: for every non-negative amount calculatePoints returns exactly
\* 5 * floor(amount / 100): a multiple of 5 whose fifth, in hundreds, is at
\* most the amount and less than a hundred below it.  The amounts 0, 99, 100,
\* 250 and 1000 give 0, 0, 5, 10 and 50, and every amount below 100 gives 0.
C1_PointsAreFiveTimesFloor ==
    (calc.applied /\ calc.amount >= 0) =>
        /\ calc.threw = ""
        /\ calc.points % 5 = 0
        /\ (calc.points \div 5) * 10000 <= calc.amount
        /\ calc.amount < (calc.points \div 5) * 10000 + 10000
        /\ (calc.amount < 10000 => calc.points = 0)
        /\ (calc.amount = 0 => calc.points = 0)
        /\ (calc.amount = 9900 => calc.points = 0)
        /\ (calc.amount = 10000 => calc.points = 5)
        /\ (calc.amount = 25000 => calc.points = 10)
        /\ (calc.amount = 100000 => calc.points = 50)

\* C1 witness: calculatePoints has been applied to 250.00 and gave 10.
C1_Witness ==
    calc.applied /\ calc.amount = 25000 /\ calc.points = 10

\* C2: calculatePoints rejects every negative amount with InvalidAmount and
\* returns no point value for it (never a negative number of points).
C2_NegativeAmountRejected ==
    (calc.applied /\ calc.amount < 0) =>
        (calc.threw = "InvalidAmount" /\ ~(calc.points < 0))

\* The texts that hold the generic message together with a raw detail.
GenericWithDetail(detail) ==
    {GenericMessage \o sep \o detail : sep \in {" ", ": ", " - "}}
        \cup {detail \o sep \o GenericMessage : sep \in {" ", ": ", " - "}}
        \cup (IF detail = "" THEN {GenericMessage} ELSE {})

\* Each recognised code has a message of its own.
DistinctMessages ==
    \A c1, c2 \in DOMAIN errorMessages :
        c1 # c2 => errorMessages[c1] # errorMessages[c2]

\* C9 as stated: each recognised code has its own distinct message, and for
\* every error whose code is not recognised getErrorMessage returns a generic
\* message together with the raw error detail.
C9_GenericMessageWithDetail ==
    mapped.applied =>
        /\ DistinctMessages
        /\ (EffectiveCode(mapped.error) \in DOMAIN errorMessages =>
               mapped.text = errorMessages[EffectiveCode(mapped.error)])
        /\ (EffectiveCode(mapped.error) \notin DOMAIN errorMessages =>
               mapped.text \in GenericWithDetail(mapped.error.message))

\* C9 amended: each recognised code has its own distinct message; for an
\* error whose code is neither recognised nor the name of a member inherited
\* from Object.prototype, getErrorMessage returns the raw error message alone
\* when there is one, and the generic message alone when there is none.
C9_DetailOrGenericMessage ==
    mapped.applied =>
        /\ DistinctMessages
        /\ (EffectiveCode(mapped.error) \in DOMAIN errorMessages =>
               /\ mapped.text = errorMessages[EffectiveCode(mapped.error)]
               /\ \A c \in DOMAIN errorMessages :
                      errorMessages[c] = mapped.text =>
                          c = EffectiveCode(mapped.error))
        /\ (EffectiveCode(mapped.error) \notin
                DOMAIN errorMessages \cup ObjectPrototypeKeys =>
               mapped.text = IF mapped.error.message # ""
                             THEN mapped.error.message
                             ELSE GenericMessage)

\* C9 witness: an unrecognised code with a raw detail has been mapped, and
\* the raw detail came back.
C9_Witness ==
    /\ mapped.applied
    /\ mapped.error.code = "unavailable"
    /\ mapped.error.message = "The service is currently unavailable."
    /\ mapped.text = "The service is currently unavailable."

\* C3: in every reachable state every Customer's points balance is a
\* non-negative integer.
C3_PointsNonNegative ==
    \A ph \in DOMAIN customers : customers[ph].points \in Nat

\* C4: in every reachable state each Customer's points equal the sum of
\* pointsEarned over the Purchase records carrying its phone minus the sum
\* of pointsSpent over the Redemption records carrying its phone.
C4_BalanceIsLedgerSum ==
    \A ph \in DOMAIN customers :
        customers[ph].points =
            TotalPointsEarned(RecordsOf(purchases, ph))
                - TotalPointsSpent(RecordsOf(redemptions, ph))

\* C4 witness: a customer with a purchase and a redemption on record.
C4_Witness ==
    \E ph \in DOMAIN customers :
        NumPurchases(ph) >= 1 /\ NumRedemptions(ph) >= 1

\* Two finished redeem_points(phone, "small") calls that were both launched
\* at the same ledger position of a customer holding 100 points: neither had
\* committed when the other was launched.
Raced(p, q) ==
    /\ p # q
    /\ pc[p] = "done" /\ pc[q] = "done"
    /\ local[p].op = "redeem" /\ local[q].op = "redeem"
    /\ local[p].tier = "small" /\ local[q].tier = "small"
    /\ local[p].phone = local[q].phone
    /\ Exists(local[p].phone)
    /\ local[p].start = local[q].start
    /\ local[p].start.points = 100

\* C5: of two concurrent redeem_points(phone, "small") calls on a customer
\* holding 100 points exactly one succeeds, the other fails with
\* InsufficientPoints or TransactionConflict, the balance ends at 0 and
\* exactly one Redemption record has been appended.
C5_OneOfTwoRedemptionsSucceeds ==
    \A p, q \in Procs :
        Raced(p, q) =>
            /\ result[p].success # result[q].success
            /\ \A r \in {p, q} :
                   ~result[r].success =>
                       result[r].error \in
                           {"InsufficientPoints", "TransactionConflict"}
            /\ customers[local[p].phone].points = 0
            /\ NumRedemptions(local[p].phone)
                   = local[p].start.redemptions + 1

\* C5 witness: two such calls have finished.
C5_Witness ==
    \E p, q \in Procs : Raced(p, q)

\* One step of the system, as C6 constrains it.
C6_Step ==
    /\ \A p \in Procs :
           AwardCommit(p) =>
               LET ph == local[p].phone
                   delta == IF Exists(ph)
                            THEN customers'[ph].points - customers[ph].points
                            ELSE 0
               IN  IF pc'[p] # "done"
                   THEN UNCHANGED <<customers, purchases>>
                   ELSE IF ~Exists(ph)
                   THEN /\ ~result'[p].success
                        /\ result'[p].error = "CustomerNotFound"
                        /\ UNCHANGED storeVars
                   ELSE /\ result'[p].success
                        /\ delta % 5 = 0
                        /\ (delta \div 5) * 10000 <= local[p].amount
                        /\ local[p].amount < (delta \div 5) * 10000 + 10000
                        /\ customers' =
                               [customers EXCEPT ![ph].points = @ + delta]
                        /\ purchases' = Append(purchases,
                               [customerPhone |-> ph,
                                amount |-> local[p].amount,
                                pointsEarned |-> delta])
    /\ purchases' # purchases => \E p \in Procs : AwardCommit(p)
    /\ \A ph \in DOMAIN customers :
           (ph \in DOMAIN customers'
               /\ customers'[ph].points # customers[ph].points) =>
               (purchases' # purchases \/ redemptions' # redemptions)

\* C6: award_points on an existing customer raises the balance by exactly
\* 5 * floor(amount / 100) and appends one Purchase record with that amount
\* and those points in the same step; no step changes a balance without a
\* record or appends a Purchase record without the balance change; and
\* award_points on an absent customer fails with CustomerNotFound and writes
\* nothing.
C6_AwardAllOrNothing == [][C6_Step]_vars

\* C6 witness: one award has succeeded and is on record, and another, on an
\* absent customer, has failed with CustomerNotFound.
C6_Witness ==
    \E p, q \in Procs :
        /\ pc[p] = "done" /\ local[p].op = "award" /\ result[p].success
        /\ Len(purchases) = 1
        /\ customers[local[p].phone].points = purchases[1].pointsEarned
        /\ purchases[1].pointsEarned = 100
        /\ pc[q] = "done" /\ local[q].op = "award"
        /\ result[q].error = "CustomerNotFound"

\* One step of the system, as C7 constrains it.
C7_Step ==
    \A p \in Procs :
        (RedeemCommit(p) /\ pc'[p] = "done" /\ Exists(local[p].phone)) =>
            LET ph == local[p].phone
                cost == IF local[p].tier = "small" THEN 100 ELSE 180
            IN  IF customers[ph].points >= cost
                THEN /\ result'[p].success
                     /\ customers' =
                            [customers EXCEPT ![ph].points = @ - cost]
                     /\ redemptions' = Append(redemptions,
                            [customerPhone |-> ph, tier |-> local[p].tier,
                             pointsSpent |-> cost])
                     /\ UNCHANGED purchases
                ELSE /\ ~result'[p].success
                     /\ result'[p].error = "InsufficientPoints"
                     /\ UNCHANGED <<customers, purchases, redemptions>>

\* C7: a redeem_points call on an existing customer succeeds exactly when the
\* balance is at least the tier's cost (small 100, large 180); it then lowers
\* the balance by that cost and appends one Redemption record; otherwise it
\* fails with InsufficientPoints and leaves balance and records unchanged.
C7_RedeemIffSufficient == [][C7_Step]_vars

\* C7 witness: small redeemed at 100 points left 0, and a further redemption
\* failed with InsufficientPoints.
C7_Witness ==
    \E p, q \in Procs :
        /\ pc[p] = "done" /\ local[p].op = "redeem" /\ result[p].success
        /\ local[p].tier = "small" /\ local[p].start.points = 100
        /\ customers[local[p].phone].points = 0
        /\ pc[q] = "done" /\ local[q].op = "redeem"
        /\ local[q].phone = local[p].phone
        /\ result[q].error = "InsufficientPoints"

\* C8: the statistics getStatistics returns satisfy activePoints =
\* totalPointsEarned - totalPointsRedeemed, and activePoints is the sum of all
\* customers' balances as they are when it returns, also when its three reads
\* are interleaved with award_points and redeem_points.
C8_ActivePointsAreBalances ==
    \A p \in Procs :
        (pc[p] = "done" /\ local[p].op = "getStatistics"
            /\ result[p].success) =>
            /\ result[p].stats.activePoints =
                   result[p].stats.totalPointsEarned
                       - result[p].stats.totalPointsRedeemed
            /\ result[p].stats.activePoints = result[p].balances

\* Two createCustomer calls for one normalized phone have both succeeded.
BothCreated(p, q) ==
    /\ p # q
    /\ pc[p] = "done" /\ pc[q] = "done"
    /\ local[p].op = "createCustomer" /\ local[q].op = "createCustomer"
    /\ local[p].phone = local[q].phone
    /\ result[p].success /\ result[q].success

\* One step of the system, as C10 constrains it.
C10_Step ==
    /\ \A ph \in DOMAIN customers :
           /\ ph \in DOMAIN customers'
           /\ customers'[ph].points # customers[ph].points =>
                  \E p \in Procs :
                      /\ local[p].phone = ph
                      /\ AwardCommit(p) \/ RedeemCommit(p)
    /\ \A ph \in DOMAIN customers' \ DOMAIN customers :
           /\ customers'[ph].points = 0
           /\ \E p \in Procs : local[p].phone = ph /\ CreateCustomerSet(p)
    /\ \A p \in Procs :
           (CreateCustomerSet(p) /\ Exists(local[p].phone)) =>
               UNCHANGED customers
    /\ \A p \in Procs :
           LoginUpdate(p) =>
               /\ DOMAIN customers' = DOMAIN customers
               /\ \A ph \in DOMAIN customers :
                      /\ customers'[ph] =
                             [customers[ph] EXCEPT
                                 !.lastLogin = customers'[ph].lastLogin]
                      /\ ph # local[p].phone =>
                             customers'[ph] = customers[ph]
               /\ UNCHANGED <<authUsers, purchases, redemptions>>

\* C10: a Customer is created with points = 0 and its points change only by
\* an award_points or redeem_points step on it; createCustomer never writes
\* over an existing document, of the createCustomer calls for one normalized
\* phone at most one succeeds, and loginCustomer changes no field of any
\* document other than lastLogin.
C10_PointsOnlyByLedger ==
    /\ [](\A p, q \in Procs : ~BothCreated(p, q))
    /\ [][C10_Step]_vars

\* C10 witness: two concurrent createCustomer calls for one normalized phone:
\* both found no document; one created it, the other was refused by the
\* identity provider.
C10_Witness ==
    \E p, q \in Procs :
        /\ p # q
        /\ pc[p] = "done" /\ pc[q] = "done"
        /\ local[p].op = "createCustomer" /\ local[q].op = "createCustomer"
        /\ local[p].phone = local[q].phone
        /\ result[p].success
        /\ result[q].error = errorMessages["auth/email-already-in-use"]
        /\ customers[local[p].phone].points = 0

\* Where a loginCustomer call is suspended once it has signed in.
SignedInLabels == {"lg_get", "lg_signout", "lg_update"}

\* One step of the system, as C11 constrains it.
C11_Step ==
    \A p \in Procs :
        LET ph == local[p].phone
            email == phoneToEmail(ph)
            returns == pc[p] \in {"lg_auth"} \cup SignedInLabels
                           /\ pc'[p] = "done"
        IN  /\ (returns /\ result'[p].success) =>
                   /\ pc[p] \in SignedInLabels
                   /\ session[p] = email
                   /\ Exists(ph)
            /\ (pc[p] = "lg_get" /\ pc'[p] # "lg_get" /\ ~Exists(ph)) =>
                   /\ pc'[p] = "lg_signout"
                   /\ UNCHANGED storeVars
            /\ (pc[p] = "lg_signout" /\ pc'[p] = "done") =>
                   /\ ~result'[p].success
                   /\ session'[p] = NoSession
                   /\ UNCHANGED <<customers, authUsers, purchases,
                                  redemptions>>
            /\ (returns /\ pc[p] \in SignedInLabels
                    /\ ~result'[p].success) =>
                   session'[p] = NoSession

\* C11: loginCustomer returns success only if the credentials authenticated
\* and the customer document exists; when authentication succeeds and the
\* document is missing the call signs out again, returns failure and writes
\* nothing to the store; and no loginCustomer call that signed in and then
\* returns failure leaves its session signed in.
C11_FailedLoginLeavesNoSession == [][C11_Step]_vars

\* Every identity-provider account has its customer document, but for the
\* accounts of createCustomer calls suspended between their two writes.
NoOrphanAccount ==
    \A ph \in {formatPhoneNumber(raw) : raw \in RawPhones} :
        phoneToEmail(ph) \in DOMAIN authUsers =>
            \/ Exists(ph)
            \/ \E q \in Procs : pc[q] = "cc_set" /\ local[q].phone = ph

\* One step of the system, as C12 constrains it.
C12_Step ==
    /\ \A p \in Procs :
           (pc[p] \in {"cc_get", "cc_auth", "cc_set"} /\ pc'[p] = "done"
                /\ ~result'[p].success) =>
               /\ customers' = customers
               /\ authUsers' = authUsers
               /\ pc[p] # "cc_set"
    /\ NoOrphanAccount'

\* C12: a createCustomer call that returns success: false has created neither
\* an account nor a customer document (it does not return failure from
\* behind its createUserWithEmailAndPassword), so that after every completed
\* call an account exists for a phone only if its customer document exists.
C12_CreateCustomerAllOrNothing == [][C12_Step]_vars

====
